---- MODULE Spec2Model ----
(***************************************************************************)
(* yargevad/mailtools: the mimeutil attachment extractor, the imaputil    *)
(* session wrapper and the climap command-line tool.                       *)
(*                                                                         *)
(* Bytes are integers 0..255 and byte strings are sequences of them.       *)
(* A message is held parsed: whether net/mail can read it, the media type  *)
(* of its Content-Type header, whether that has a boundary parameter, and  *)
(* the sequence of body parts a multipart reader would hand out.           *)
(***************************************************************************)
EXTENDS Integers, Sequences, FiniteSets, TLC

(* ----------------------------- bounds --------------------------------- *)
MaxParts == 2      \* parts of a message examined by DecodeAttachment
MaxMsgs == 2       \* messages in the server's mailbox
MaxBoxes == 2      \* mailboxes a LIST reply names

(* --------------------------- byte helpers ------------------------------ *)
\* unicode.IsSpace on the ASCII range: \t \n \v \f \r and space
IsSpace(r) == r \in {9, 10, 11, 12, 13, 32}

\* bytes.Map with the mapping of lines 95-99: a byte that is white space
\* is dropped (the mapping returns -1), any other byte is kept
RECURSIVE BytesMap(_)
BytesMap(s) ==
    IF s = <<>> THEN <<>>
    ELSE (IF IsSpace(Head(s)) THEN <<>> ELSE <<Head(s)>>) \o BytesMap(Tail(s))

\* the value of a character of the standard base64 alphabet, -1 outside it
B64Val(c) ==
    IF c \in 65..90 THEN c - 65
    ELSE IF c \in 97..122 THEN c - 71
    ELSE IF c \in 48..57 THEN c + 4
    ELSE IF c = 43 THEN 62
    ELSE IF c = 47 THEN 63
    ELSE -1

Pad == 61     \* '='

\* base64.StdEncoding.Decode on input without line breaks: four characters
\* give three bytes; padding is accepted in the last quantum only; the
\* bits left over under padding are not checked (the encoding is not Strict)
RECURSIVE B64Decode(_)
B64Decode(src) ==
    IF src = <<>> THEN [ok |-> TRUE, out |-> <<>>]
    ELSE IF Len(src) < 4 THEN [ok |-> FALSE, out |-> <<>>]
    ELSE LET v1 == B64Val(src[1])
             v2 == B64Val(src[2])
             v3 == B64Val(src[3])
             v4 == B64Val(src[4])
             b1 == (v1 * 4 + (v2 \div 16)) % 256
             b2 == ((v2 % 16) * 16 + (v3 \div 4)) % 256
             b3 == ((v3 % 4) * 64 + v4) % 256
             rest == SubSeq(src, 5, Len(src))
         IN  IF v1 < 0 \/ v2 < 0 THEN [ok |-> FALSE, out |-> <<>>]
             ELSE IF src[3] = Pad
                  THEN IF src[4] = Pad /\ rest = <<>>
                       THEN [ok |-> TRUE, out |-> <<b1>>]
                       ELSE [ok |-> FALSE, out |-> <<>>]
             ELSE IF v3 < 0 THEN [ok |-> FALSE, out |-> <<>>]
             ELSE IF src[4] = Pad
                  THEN IF rest = <<>>
                       THEN [ok |-> TRUE, out |-> <<b1, b2>>]
                       ELSE [ok |-> FALSE, out |-> <<>>]
             ELSE IF v4 < 0 THEN [ok |-> FALSE, out |-> <<>>]
             ELSE LET r == B64Decode(rest)
                  IN  IF r.ok THEN [ok |-> TRUE, out |-> <<b1, b2, b3>> \o r.out]
                      ELSE [ok |-> FALSE, out |-> <<>>]

\* a hexadecimal digit's value as encoding/hex reads it, -1 for any other byte
HexVal(c) ==
    IF c \in 48..57 THEN c - 48
    ELSE IF c \in 65..70 THEN c - 55
    ELSE IF c \in 97..102 THEN c - 87
    ELSE -1

\* mime/quotedprintable's reader past the line handling: =XY is the byte XY,
\* a '=' before anything else that is not a line end stands for itself, a
\* '=' with nothing after it is an error, an unprintable byte is an error
RECURSIVE QPLine(_)
QPLine(line) ==
    IF line = <<>> THEN [ok |-> TRUE, out |-> <<>>]
    ELSE LET c == Head(line)
             isHex == Len(line) >= 3 /\ HexVal(line[2]) >= 0 /\ HexVal(line[3]) >= 0
             b == IF c = Pad /\ isHex THEN HexVal(line[2]) * 16 + HexVal(line[3]) ELSE c
             rest == IF c = Pad /\ isHex THEN SubSeq(line, 4, Len(line)) ELSE Tail(line)
             r == QPLine(rest)
         IN  IF c = Pad /\ ~isHex /\ ~(Len(line) >= 2 /\ line[2] \notin {10, 13})
             THEN [ok |-> FALSE, out |-> <<>>]
             ELSE IF c # Pad /\ c \notin {9, 10, 13} /\ c < 128 /\ (c < 32 \/ c > 126)
             THEN [ok |-> FALSE, out |-> <<>>]
             ELSE IF r.ok THEN [ok |-> TRUE, out |-> <<b>> \o r.out]
             ELSE [ok |-> FALSE, out |-> <<>>]

\* mime/quotedprintable's reader on a body of one line without a line end:
\* a '=' that ends it is a soft line break and is dropped before decoding
QPDecode(src) ==
    IF src # <<>> /\ src[Len(src)] = Pad
    THEN IF Len(src) = 1 THEN [ok |-> FALSE, out |-> <<>>]
         ELSE QPLine(SubSeq(src, 1, Len(src) - 1))
    ELSE QPLine(src)

(* ------------------------ messages and parts --------------------------- *)
\* part bodies, as bytes:  "QU JD"  "QR=="  "=41"
Bodies == { <<81, 85, 32, 74, 68>>, <<81, 82, 61, 61>>, <<61, 52, 49>> }

\* what Part.FileName() finds in a part's Content-Disposition
FileNames == {"", "a.zip"}

\* values of a part's Content-Transfer-Encoding header ("" when it has none)
Encodings == {"", "base64", "BASE64", "7bit", "quoted-printable", "Quoted-Printable"}

\* a part as it lies in the message: "ok" a well-formed part, "badheader" one
\* whose header block the multipart reader cannot parse, "truncated" one
\* whose body ends before a boundary line
RawParts ==
    [kind : {"ok"}, filename : FileNames, cte : Encodings, body : Bodies]
    \cup [kind : {"badheader"}, filename : {""}, cte : {""}, body : {<<>>}]
    \cup [kind : {"truncated"}, filename : FileNames, cte : {""}, body : {<<81, 85>>}]

\* media types of the top-level Content-Type header; major "" is a header
\* that is missing or that mime.ParseMediaType rejects
MediaTypes ==
    { [major |-> "", minor |-> ""],
      [major |-> "text", minor |-> "plain"],
      [major |-> "multipart", minor |-> "mixed"],
      [major |-> "multipart", minor |-> "alternative"] }

SeqsUpTo(S, n) == UNION { [1..k -> S] : k \in 0..n }

\* bytes net/mail cannot read as a message (an empty file among them)
Unreadable ==
    [readable |-> FALSE, ctype |-> [major |-> "", minor |-> ""],
     hasBoundary |-> FALSE, parts |-> <<>>]

Messages ==
    {Unreadable}
    \cup [readable : {TRUE}, ctype : MediaTypes, hasBoundary : BOOLEAN,
          parts : SeqsUpTo(RawParts, MaxParts)]

(* --------------------------- mime/multipart ---------------------------- *)
\* strings.EqualFold(v, "quoted-printable") on the header values above
IsQuotedPrintable(v) == v \in {"quoted-printable", "Quoted-Printable"}

\* Reader.NextPart on one raw part: an error for a header block it cannot
\* parse; for quoted-printable the Content-Transfer-Encoding header is
\* deleted and Read decodes the body; otherwise the part is handed out as is.
\* data, readErr: the bytes the part's Read calls deliver in all, and
\* whether they end in an error other than io.EOF.
NextPart(raw) ==
    LET qp == raw.kind = "ok" /\ IsQuotedPrintable(raw.cte)
        dec == QPDecode(raw.body)
    IN  [err      |-> raw.kind = "badheader",
         FileName |-> raw.filename,
         cte      |-> IF qp THEN "" ELSE raw.cte,
         data     |-> IF qp THEN dec.out ELSE raw.body,
         readErr  |-> raw.kind = "truncated" \/ (qp /\ ~dec.ok)]

BufSize == 4096    \* make([]byte, 4*1024)

\* the data cut into the pieces that fit the caller's buffer
RECURSIVE Chunks(_)
Chunks(data) ==
    IF data = <<>> THEN <<>>
    ELSE IF Len(data) <= BufSize THEN <<data>>
    ELSE <<SubSeq(data, 1, BufSize)>> \o Chunks(SubSeq(data, BufSize + 1, Len(data)))

\* the returns (n bytes, err) of the successive part.Read(buf) calls. An
\* io.Reader may return the last bytes together with the error that ends
\* the stream or in a Read of their own followed by (0, err); eofWithData
\* says which of the two the multipart reader of the build does.
Reads(part, eofWithData) ==
    LET cs == Chunks(part.data)
        end == IF part.readErr THEN "unexpected EOF" ELSE "EOF"
        k == Len(cs)
    IN  IF k = 0 THEN << [p |-> <<>>, err |-> end] >>
        ELSE IF eofWithData
             THEN [i \in 1..k |-> [p |-> cs[i], err |-> IF i = k THEN end ELSE ""]]
        ELSE [i \in 1..k |-> [p |-> cs[i], err |-> ""]] \o << [p |-> <<>>, err |-> end] >>

(* ------------------------------ mimeutil ------------------------------- *)
NoAttachment == [Filename |-> "", Length |-> 0, Content |-> <<>>, encoding |-> ""]

\* a return of DecodeAttachment: the *Attachment (attNil: it is nil), the
\* error ("" is nil), and how many parts NextPart handed out before it
Return(attNil, att, err, n) ==
    [attNil |-> attNil, att |-> att, err |-> err, examined |-> n]

\* lines 77-88: the read loop over the returns rs from the i-th on; a return
\* with an error ends the loop before its bytes are counted or kept
RECURSIVE ReadLoop(_, _, _, _)
ReadLoop(rs, i, bufs, attLen) ==
    IF rs[i].err # ""
    THEN [err |-> IF rs[i].err = "EOF" THEN "" ELSE rs[i].err,
          bufs |-> bufs, attLen |-> attLen]
    ELSE ReadLoop(rs, i + 1, Append(bufs, rs[i].p), attLen + Len(rs[i].p))

\* bytes.Join(frags, []byte(""))
RECURSIVE Join(_)
Join(frags) == IF frags = <<>> THEN <<>> ELSE Head(frags) \o Join(Tail(frags))

\* lines 75-111: the part with a filename is read to its end and decoded
ReadAttachment(part, n, eofWithData) ==
    LET rd == ReadLoop(Reads(part, eofWithData), 1, <<>>, 0)
        att == [Filename |-> part.FileName, Length |-> rd.attLen,
                Content |-> Join(rd.bufs), encoding |-> part.cte]
        tmp == BytesMap(att.Content)
        dec == B64Decode(tmp)
    IN  IF rd.err # "" THEN Return(TRUE, NoAttachment, rd.err, n)
        ELSE IF att.encoding = "" THEN Return(FALSE, att, "", n)
        ELSE IF att.encoding = "base64"
             THEN IF ~dec.ok THEN Return(TRUE, NoAttachment, "base64", n)
                  ELSE Return(FALSE,
                              [att EXCEPT !.Content = dec.out, !.Length = Len(dec.out)],
                              "", n)
        ELSE Return(FALSE, att, "Unsupported Content-Transfer-Encoding", n)

\* the loop going on past a part with a filename when a later part has one
\* too: the last attachment is returned, not the first
WalkPartsLast(parts, i, eofWithData) ==
    LET named == {k \in i..Len(parts) : parts[k].filename # ""}
        last == CHOOSE k \in named : \A j \in named : j <= k
    IN  IF named = {} THEN Return(TRUE, NoAttachment, "", Len(parts))
        ELSE ReadAttachment(NextPart(parts[last]), last, eofWithData)

\* lines 64-115: the loop over NextPart, from part i on
RECURSIVE WalkParts(_, _, _)
WalkParts(parts, i, eofWithData) ==
    IF i > Len(parts) THEN Return(TRUE, NoAttachment, "", i - 1)
    ELSE LET part == NextPart(parts[i])
         IN  IF part.err THEN Return(TRUE, NoAttachment, "NextPart", i - 1)
             ELSE IF part.FileName # "" THEN ReadAttachment(part, i, eofWithData)
             ELSE WalkParts(parts, i + 1, eofWithData)

\* strings.HasPrefix(mtype, "multipart/")
IsMultipart(mtype) == mtype.major = "multipart"

\* DecodeAttachment without the test for a boundary parameter
DecodeAttachmentNoBoundaryTest(msg, eofWithData) ==
    IF ~msg.readable THEN Return(TRUE, NoAttachment, "ReadMessage", 0)
    ELSE IF msg.ctype.major = "" THEN Return(TRUE, NoAttachment, "ParseMediaType", 0)
    ELSE IF ~IsMultipart(msg.ctype)
         THEN Return(TRUE, NoAttachment, "Unsupported top-level Content-Type", 0)
    ELSE WalkParts(msg.parts, 1, eofWithData)

\* lines 40-116; eofWithData is the reader of the parts, see Reads
DecodeAttachment(msg, eofWithData) ==
    IF ~msg.readable THEN Return(TRUE, NoAttachment, "ReadMessage", 0)
    ELSE IF msg.ctype.major = "" THEN Return(TRUE, NoAttachment, "ParseMediaType", 0)
    ELSE IF ~IsMultipart(msg.ctype)
         THEN Return(TRUE, NoAttachment, "Unsupported top-level Content-Type", 0)
    ELSE IF ~msg.hasBoundary THEN Return(TRUE, NoAttachment, "No boundary in Content-Type!", 0)
    ELSE WalkParts(msg.parts, 1, eofWithData)

\* the earlier DecodeAttachment (lines 152-206): only multipart/mixed is
\* taken, and the attachment is returned as read, without decoding
RECURSIVE WalkPartsEarlier(_, _, _)
WalkPartsEarlier(parts, i, eofWithData) ==
    IF i > Len(parts) THEN Return(TRUE, NoAttachment, "", i - 1)
    ELSE LET part == NextPart(parts[i])
             rd == ReadLoop(Reads(part, eofWithData), 1, <<>>, 0)
         IN  IF part.err THEN Return(TRUE, NoAttachment, "NextPart", i - 1)
             ELSE IF part.FileName # ""
                  THEN IF rd.err # "" THEN Return(TRUE, NoAttachment, rd.err, i)
                       ELSE Return(FALSE,
                                   [Filename |-> part.FileName, Length |-> rd.attLen,
                                    Content |-> Join(rd.bufs), encoding |-> ""],
                                   "", i)
             ELSE WalkPartsEarlier(parts, i + 1, eofWithData)

DecodeAttachmentEarlier(msg, eofWithData) ==
    IF ~msg.readable THEN Return(TRUE, NoAttachment, "ReadMessage", 0)
    ELSE IF msg.ctype.major = "" THEN Return(TRUE, NoAttachment, "ParseMediaType", 0)
    ELSE IF msg.ctype # [major |-> "multipart", minor |-> "mixed"]
         THEN Return(TRUE, NoAttachment, "Unsupported top-level Content-Type", 0)
    ELSE IF ~msg.hasBoundary THEN Return(TRUE, NoAttachment, "No boundary in Content-Type!", 0)
    ELSE WalkPartsEarlier(msg.parts, 1, eofWithData)

(* ------------------------------ the state ------------------------------ *)
VARIABLES
    arg,           \* a message handed to DecodeAttachment directly
    eofWithData,   \* the reader it is read with, see Reads
    called,        \* which DecodeAttachment was called on arg ("" none yet)
    ret,           \* what it returned
    mailbox,       \* server: the selected mailbox, messages in sequence-number order
    dirExists,     \* local disk: the mailbox directory msgDir exists
    files,         \* local disk: per identifier, whether <id>.eml exists and its bytes
    caller,        \* "climap": the tool's main; "lib": a program calling ImapCtx.Init
    flags,         \* command line and environment of the run
    pc,            \* where the run stands
    IMAP,          \* ctx.IMAP is set
    preAttached,   \* ctx.IMAP was set before Init was called
    initErr,       \* the error Init returned ("" nil)
    mailboxErr,    \* the error ctx.Mailbox returned ("" nil)
    cmds,          \* IMAP traffic of the run, in order
    toSelect,      \* mailboxes of the LIST reply not yet selected
    criteria,      \* the search terms
    uids,          \* what Search returned
    idx,           \* position of the download loop in uids
    msgBytes,      \* the loop body's msgBytes (line 90)
    fetched,       \* the msgBytes declared at line 108, which shadows it
    walked         \* identifiers whose bytes were handed to DecodeAttachment

decodeVars == <<arg, eofWithData, called, ret>>
diskVars == <<dirExists, files>>
serverVars == <<mailbox>>
runVars == <<caller, flags, pc, IMAP, preAttached, initErr, mailboxErr, cmds, toSelect,
             criteria, uids, idx, msgBytes, fetched, walked>>
vars == <<decodeVars, serverVars, diskVars, runVars>>

(* ------------------- the server, the disk and the runs ----------------- *)
TextPart == [kind |-> "ok", filename |-> "", cte |-> "", body |-> <<61, 52, 49>>]
ZipPart == [kind |-> "ok", filename |-> "a.zip", cte |-> "base64",
            body |-> <<81, 85, 32, 74, 68>>]

\* the messages the server holds: one with an attachment, one without
MsgAttachment ==
    [readable |-> TRUE, ctype |-> [major |-> "multipart", minor |-> "mixed"],
     hasBoundary |-> TRUE, parts |-> <<TextPart, ZipPart>>]
MsgNoAttachment ==
    [readable |-> TRUE, ctype |-> [major |-> "multipart", minor |-> "alternative"],
     hasBoundary |-> TRUE, parts |-> <<TextPart>>]
RunMsgs == {MsgAttachment, MsgNoAttachment}

Empty == Unreadable                       \* no bytes at all
Nil == [nil |-> TRUE, bytes |-> Empty]    \* a nil []byte
Slice(m) == [nil |-> FALSE, bytes |-> m]  \* a []byte that is not nil

Ids == 1..MaxMsgs
NoFile == [exists |-> FALSE, bytes |-> Empty]

Flags == [download : BOOLEAN, subject : BOOLEAN, newer : BOOLEAN, baseDir : BOOLEAN]
NoFlags == [download |-> FALSE, subject |-> FALSE, newer |-> FALSE, baseDir |-> FALSE]

Cmd(name, a, ok) == [name |-> name, arg |-> a, ok |-> ok]

Terminal == pc \in {"done", "fatal", "exit", "panic", "returned"}

\* the mailboxes: up to MaxMsgs messages; a message's sequence number is
\* its position
Mailboxes == SeqsUpTo(RunMsgs, MaxMsgs)

\* no process: nothing of a run is left but the disk
NoRun ==
    [caller |-> "climap", flags |-> NoFlags, pc |-> "Start", IMAP |-> FALSE,
     preAttached |-> FALSE, initErr |-> "", mailboxErr |-> "", cmds |-> <<>>,
     toSelect |-> 0,
     criteria |-> <<>>, uids |-> <<>>, idx |-> 0, msgBytes |-> Nil, fetched |-> Nil,
     walked |-> {}]

DecodeIdle ==
    /\ arg = Unreadable
    /\ eofWithData = FALSE
    /\ called = ""
    /\ ret = Return(TRUE, NoAttachment, "", 0)

Init ==
    /\ DecodeIdle
    /\ mailbox \in Mailboxes
    /\ dirExists = FALSE
    /\ files = [i \in Ids |-> NoFile]
    /\ caller = NoRun.caller
    /\ flags = NoRun.flags
    /\ pc = NoRun.pc
    /\ IMAP = NoRun.IMAP
    /\ preAttached = NoRun.preAttached
    /\ initErr = NoRun.initErr
    /\ mailboxErr = NoRun.mailboxErr
    /\ cmds = NoRun.cmds
    /\ toSelect = NoRun.toSelect
    /\ criteria = NoRun.criteria
    /\ uids = NoRun.uids
    /\ idx = NoRun.idx
    /\ msgBytes = NoRun.msgBytes
    /\ fetched = NoRun.fetched
    /\ walked = NoRun.walked

fixedVars == <<decodeVars, caller, flags, preAttached>>
loopVars == <<uids, idx, msgBytes, fetched, walked>>

\* a process starts: the climap tool with its flags and environment (the
\* context it makes has no client), or a program that calls Init on a
\* context of its own, with or without a client attached
Start ==
    /\ pc = "Start"
    /\ caller' \in {"climap", "lib"}
    /\ flags' \in IF caller' = "climap" THEN Flags ELSE {NoFlags}
    /\ preAttached' \in IF caller' = "lib" THEN BOOLEAN ELSE {FALSE}
    /\ IMAP' = preAttached'
    /\ pc' = "Init"
    /\ UNCHANGED <<decodeVars, serverVars, diskVars, initErr, mailboxErr, cmds, toSelect, criteria,
                   loopVars>>

(* ------------------------------ imaputil ------------------------------- *)
\* Init returns err: a library caller gets it back; in climap EnvConnect
\* hands it to main, which ends in log.Fatal
InitReturns(err) ==
    /\ initErr' = err
    /\ pc' = IF caller = "lib" THEN "returned" ELSE "fatal"

\* EnvConnect lines 274-292: a missing CLIMAP_HOST, _USER or _PASS
EnvMissing ==
    /\ pc = "Init" /\ caller = "climap"
    /\ pc' = "fatal"
    /\ UNCHANGED <<fixedVars, serverVars, diskVars, IMAP, initErr, mailboxErr, cmds, toSelect,
                   criteria, loopVars>>

\* Init lines 255-260 with Connect: dial when no client is attached
Connect ==
    /\ pc = "Init" /\ ~IMAP
    /\ \E ok \in BOOLEAN :
        /\ cmds' = Append(cmds, Cmd("DIAL", 0, ok))
        /\ IMAP' = ok
        /\ IF ok THEN pc' = "Ping" /\ initErr' = initErr ELSE InitReturns("DIAL")
    /\ UNCHANGED <<fixedVars, serverVars, diskVars, mailboxErr, toSelect, criteria, loopVars>>

\* Init line 255 when a client is attached already
SkipConnect ==
    /\ pc = "Init" /\ IMAP
    /\ pc' = "Ping"
    /\ UNCHANGED <<fixedVars, serverVars, diskVars, IMAP, initErr, mailboxErr, cmds, toSelect,
                   criteria, loopVars>>

\* Ping with its error dropped: Init goes on to Login after a failed NOOP
PingUnchecked ==
    /\ pc = "Ping"
    /\ \E ok \in BOOLEAN : cmds' = Append(cmds, Cmd("NOOP", 0, ok))
    /\ pc' = "Login"
    /\ UNCHANGED <<fixedVars, serverVars, diskVars, IMAP, initErr, mailboxErr, toSelect, criteria,
                   loopVars>>

\* Init lines 261-264 with Ping
Ping ==
    /\ pc = "Ping"
    /\ \E ok \in BOOLEAN :
        /\ cmds' = Append(cmds, Cmd("NOOP", 0, ok))
        /\ IF ok THEN pc' = "Login" /\ initErr' = initErr ELSE InitReturns("NOOP")
    /\ UNCHANGED <<fixedVars, serverVars, diskVars, IMAP, mailboxErr, toSelect, criteria, loopVars>>

\* Init lines 265-269 with Login
Login ==
    /\ pc = "Login"
    /\ \E ok \in BOOLEAN :
        /\ cmds' = Append(cmds, Cmd("LOGIN", 0, ok))
        /\ IF ok
           THEN /\ initErr' = ""
                /\ pc' = IF caller = "lib" THEN "returned" ELSE "Main"
           ELSE InitReturns("LOGIN")
    /\ UNCHANGED <<fixedVars, serverVars, diskVars, IMAP, mailboxErr, toSelect, criteria, loopVars>>

RECURSIVE SortedSeq(_)
SortedSeq(S) ==
    IF S = {} THEN <<>>
    ELSE LET m == CHOOSE x \in S : \A y \in S : x <= y
         IN  <<m>> \o SortedSeq(S \ {m})

\* Search line 342: ctx.IMAP.Search sends SEARCH, which the server answers
\* with the message sequence numbers of the messages that match (the set
\* at of positions in the mailbox); lines 346-353 collect them in order
Search(at) == SortedSeq(at)

\* a FETCH that failed sent once more
FetchCmdsRetry(uid, r) ==
    IF r = "fail" THEN << Cmd("FETCH", uid, FALSE), Cmd("FETCH", uid, FALSE) >>
    ELSE << Cmd("FETCH", uid, TRUE) >>

\* PartByUID line 371: the commands one call sends, a single FETCH
FetchCmds(uid, r) == << Cmd("FETCH", uid, r # "fail") >>

\* PartByUID lines 366-380 for BODY[]: ctx.IMAP.Fetch sends FETCH over the
\* set holding the one number uid, and the server answers with the
\* message at that sequence number. r is how the command ends: "ok",
\* "nodata" (OK without a BODY[] literal) or "fail".
MessageByUID(uid, r) ==
    IF r = "ok" THEN [bytes |-> Slice(mailbox[uid]), err |-> ""]
    ELSE IF r = "nodata" THEN [bytes |-> Nil, err |-> ""]
    ELSE [bytes |-> Nil, err |-> "IMAP FETCH error"]

(* ------------------------------- climap -------------------------------- *)
\* log.Fatal: the process exits at once
Fatal == pc' = "fatal"

\* main lines 32-43: the base directory check and the exit without criteria
Main ==
    /\ pc = "Main"
    /\ pc' = IF ~flags.baseDir /\ flags.download THEN "fatal"
             ELSE IF ~flags.subject /\ ~flags.newer THEN "exit"
             ELSE "List"
    /\ UNCHANGED <<fixedVars, serverVars, diskVars, IMAP, initErr, mailboxErr, cmds, toSelect,
                   criteria, loopVars>>

\* Mailbox with an empty LIST reply taken for success
ListEmptyAccepted ==
    /\ pc = "List"
    /\ \E ok \in BOOLEAN, n \in 0..MaxBoxes :
        /\ ok \/ n = 0
        /\ cmds' = Append(cmds, Cmd("LIST", n, ok))
        /\ toSelect' = IF ok THEN n ELSE 0
        /\ mailboxErr' = IF ~ok THEN "IMAP LIST error" ELSE ""
        /\ pc' = IF ~ok THEN "fatal" ELSE IF n = 0 THEN "Mkdir" ELSE "Select"
    /\ UNCHANGED <<fixedVars, serverVars, diskVars, IMAP, initErr, criteria, loopVars>>

\* Mailbox lines 320-326: LIST of the name given; the reply names n
\* mailboxes, and none at all is an error
List ==
    /\ pc = "List"
    /\ \E ok \in BOOLEAN, n \in 0..MaxBoxes :
        /\ ok \/ n = 0
        /\ cmds' = Append(cmds, Cmd("LIST", n, ok))
        /\ toSelect' = IF ok THEN n ELSE 0
        /\ mailboxErr' = IF ~ok THEN "IMAP LIST error"
                         ELSE IF n = 0 THEN "Mailbox not found" ELSE ""
        /\ pc' = IF ok /\ n > 0 THEN "Select" ELSE "fatal"
    /\ UNCHANGED <<fixedVars, serverVars, diskVars, IMAP, initErr, criteria, loopVars>>

\* the mailboxes the LIST reply of the run named
Listed == cmds[CHOOSE i \in 1..Len(cmds) : cmds[i].name = "LIST"].arg

\* line 329: ctx.IMAP.Select(box.Name, true), the box-th mailbox of the
\* reply, read-only
SelectCmd(box, ok) ==
    [name |-> "SELECT", arg |-> box, ok |-> ok, readonly |-> TRUE]

\* Select with its error dropped: main goes on after a failed SELECT
SelectUnchecked ==
    /\ pc = "Select"
    /\ \E ok \in BOOLEAN : cmds' = Append(cmds, SelectCmd(Listed - toSelect + 1, ok))
    /\ toSelect' = toSelect - 1
    /\ mailboxErr' = mailboxErr
    /\ pc' = IF toSelect = 1 THEN "Mkdir" ELSE "Select"
    /\ UNCHANGED <<fixedVars, serverVars, diskVars, IMAP, initErr, criteria, loopVars>>

\* Mailbox lines 327-334: SELECT, read-only, of the next mailbox listed;
\* the first SELECT that fails ends the loop with its error
Select ==
    /\ pc = "Select"
    /\ \E ok \in BOOLEAN :
        /\ cmds' = Append(cmds, SelectCmd(Listed - toSelect + 1, ok))
        /\ toSelect' = toSelect - 1
        /\ mailboxErr' = IF ok THEN mailboxErr ELSE "IMAP SELECT error"
        /\ pc' = IF ~ok THEN "fatal" ELSE IF toSelect = 1 THEN "Mkdir" ELSE "Select"
    /\ UNCHANGED <<fixedVars, serverVars, diskVars, IMAP, initErr, criteria, loopVars>>

\* the mailbox directory made whether or not -download is given
MkdirAlways ==
    /\ pc = "Mkdir"
    /\ \E r \in {"ok", "exist", "error"} :
         /\ r = "ok" => ~dirExists
         /\ r = "exist" => dirExists
         /\ dirExists' = (dirExists \/ r = "ok")
         /\ pc' = IF r = "error" THEN "fatal" ELSE "Criteria"
    /\ UNCHANGED <<fixedVars, serverVars, files, IMAP, initErr, mailboxErr, cmds, toSelect,
                   criteria, loopVars>>

\* main lines 51-59: the mailbox directory is made when downloading
Mkdir ==
    /\ pc = "Mkdir"
    /\ IF flags.download
       THEN \E r \in {"ok", "exist", "error"} :
              /\ r = "ok" => ~dirExists
              /\ r = "exist" => dirExists
              /\ dirExists' = (dirExists \/ r = "ok")
              /\ pc' = IF r = "error" THEN "fatal" ELSE "Criteria"
       ELSE dirExists' = dirExists /\ pc' = "Criteria"
    /\ UNCHANGED <<fixedVars, serverVars, files, IMAP, initErr, mailboxErr, cmds, toSelect,
                   criteria, loopVars>>

\* the SUBJECT term put before the SINCE term
CriteriaSubjectFirst ==
    /\ pc = "Criteria"
    /\ \E ok \in BOOLEAN :
        IF ok
        THEN /\ criteria' = (IF flags.subject THEN <<"SUBJECT", "text">> ELSE <<>>)
                            \o (IF flags.newer THEN <<"SINCE", "date">> ELSE <<>>)
             /\ pc' = "Search"
        ELSE criteria' = criteria /\ Fatal
    /\ UNCHANGED <<fixedVars, serverVars, diskVars, IMAP, initErr, mailboxErr, cmds, toSelect,
                   loopVars>>

\* main lines 61-81: the search terms; ParseDuration or Quote may fail
Criteria ==
    /\ pc = "Criteria"
    /\ \E ok \in BOOLEAN :
        IF ok
        THEN /\ criteria' = (IF flags.newer THEN <<"SINCE", "date">> ELSE <<>>)
                            \o (IF flags.subject THEN <<"SUBJECT", "text">> ELSE <<>>)
             /\ pc' = "Search"
        ELSE criteria' = criteria /\ Fatal
    /\ UNCHANGED <<fixedVars, serverVars, diskVars, IMAP, initErr, mailboxErr, cmds, toSelect,
                   loopVars>>

\* main lines 83-87 with Search
DoSearch ==
    /\ pc = "Search"
    /\ \E ok \in BOOLEAN, at \in SUBSET (1..Len(mailbox)) :
        /\ ok \/ at = {}
        /\ cmds' = Append(cmds, Cmd("SEARCH", 0, ok))
        /\ IF ok
           THEN uids' = Search(at) /\ idx' = 1 /\ pc' = "Loop"
           ELSE uids' = uids /\ idx' = idx /\ Fatal
    /\ UNCHANGED <<fixedVars, serverVars, diskVars, IMAP, initErr, mailboxErr, toSelect, criteria,
                   msgBytes, fetched, walked>>

\* main line 132: the loop is over, main returns and the deferred Logout runs
Finish ==
    /\ pc = "Loop" /\ idx > Len(uids)
    /\ cmds' = Append(cmds, Cmd("LOGOUT", 0, TRUE))
    /\ pc' = "done"
    /\ UNCHANGED <<fixedVars, serverVars, diskVars, IMAP, initErr, mailboxErr, toSelect, criteria,
                   loopVars>>

\* main lines 88-91 without -download: nothing is done to the identifier
Skip ==
    /\ pc = "Loop" /\ idx <= Len(uids) /\ ~flags.download
    /\ msgBytes' = Nil
    /\ idx' = idx + 1
    /\ UNCHANGED <<fixedVars, serverVars, diskVars, IMAP, initErr, mailboxErr, cmds, toSelect,
                   criteria, uids, fetched, walked, pc>>

\* main lines 93, 118-120: os.Open fails and not because the file is missing
OpenError ==
    /\ pc = "Loop" /\ idx <= Len(uids) /\ flags.download
    /\ msgBytes' = Nil
    /\ Fatal
    /\ UNCHANGED <<fixedVars, serverVars, diskVars, IMAP, initErr, mailboxErr, cmds, toSelect,
                   criteria, uids, idx, fetched, walked>>

\* main lines 90-100: <uid>.eml is there; it is opened and read whole
Cached ==
    /\ pc = "Loop" /\ idx <= Len(uids) /\ flags.download
    /\ files[uids[idx]].exists
    /\ \E ok \in BOOLEAN :
        IF ok THEN msgBytes' = Slice(files[uids[idx]].bytes) /\ pc' = "Decode"
        ELSE msgBytes' = Nil /\ Fatal
    /\ UNCHANGED <<fixedVars, serverVars, diskVars, IMAP, initErr, mailboxErr, cmds, toSelect,
                   criteria, uids, idx, fetched, walked>>

\* file.Write without the test of n against len(msgBytes)
FileWriteUnchecked(p, w) ==
    [bytes |-> IF w = "full" THEN p.bytes ELSE Empty, failed |-> w = "error"]

\* what file.Write(p) leaves in a file that was empty, and whether lines
\* 109-115 take it for a failure; w is how the write ends: "full", "short"
\* (no byte written and no error) or "error"
FileWrite(p, w) ==
    [bytes |-> IF w = "full" THEN p.bytes ELSE Empty,
     failed |-> w = "error" \/ (w = "short" /\ ~p.nil)]

\* main lines 90-93, 101-116: <uid>.eml is missing; it is created, the
\* message is fetched and written to it. Line 108 declares a msgBytes of
\* its own (fetched), and err of line 108 is assigned again at line 109
\* before anyone reads it. c: os.Create succeeds; r: how the FETCH ends;
\* w: how the write ends.
Download ==
    /\ pc = "Loop" /\ idx <= Len(uids) /\ flags.download
    /\ ~files[uids[idx]].exists
    /\ msgBytes' = Nil
    /\ \E c \in BOOLEAN, r \in {"ok", "nodata", "fail"}, w \in {"full", "short", "error"} :
        LET uid == uids[idx]
            got == MessageByUID(uid, r).bytes
            wr == FileWrite(got, w)
        IN  /\ ~c => (r = "ok" /\ w = "full")
            /\ (w = "short") => ~got.nil
            /\ IF ~c
               THEN files' = files /\ cmds' = cmds /\ fetched' = fetched /\ Fatal
               ELSE /\ cmds' = cmds \o FetchCmds(uid, r)
                    /\ fetched' = got
                    /\ files' = [files EXCEPT ![uid] = [exists |-> TRUE, bytes |-> wr.bytes]]
                    /\ pc' = IF wr.failed THEN "fatal" ELSE "Decode"
    /\ UNCHANGED <<fixedVars, serverVars, dirExists, IMAP, initErr, mailboxErr, toSelect, criteria,
                   uids, idx, walked>>

\* main lines 122-128: the attachment of the loop body's msgBytes, read
\* with either kind of reader; with no attachment and no error att is nil
\* and att.Length panics, which runs the deferred Logout of line 37 on
\* the way out
Decode ==
    /\ pc = "Decode"
    /\ IF msgBytes.nil
       THEN walked' = walked /\ idx' = idx + 1 /\ pc' = "Loop" /\ cmds' = cmds
       ELSE \E e \in BOOLEAN :
            LET r == DecodeAttachment(msgBytes.bytes, e)
            IN  /\ walked' = walked \cup {uids[idx]}
                /\ IF r.err # "" THEN idx' = idx /\ cmds' = cmds /\ Fatal
                   ELSE IF r.attNil
                   THEN /\ idx' = idx
                        /\ cmds' = Append(cmds, Cmd("LOGOUT", 0, TRUE))
                        /\ pc' = "panic"
                   ELSE idx' = idx + 1 /\ cmds' = cmds /\ pc' = "Loop"
    /\ UNCHANGED <<fixedVars, serverVars, diskVars, IMAP, initErr, mailboxErr, toSelect,
                   criteria, uids, msgBytes, fetched>>

(* ---------------------- between the runs ------------------------------- *)
\* the process is gone; the disk and the server stay as they are
Exit ==
    /\ Terminal
    /\ caller' = NoRun.caller
    /\ flags' = NoRun.flags
    /\ pc' = NoRun.pc
    /\ IMAP' = NoRun.IMAP
    /\ preAttached' = NoRun.preAttached
    /\ initErr' = NoRun.initErr
    /\ mailboxErr' = NoRun.mailboxErr
    /\ cmds' = NoRun.cmds
    /\ toSelect' = NoRun.toSelect
    /\ criteria' = NoRun.criteria
    /\ uids' = NoRun.uids
    /\ idx' = NoRun.idx
    /\ msgBytes' = NoRun.msgBytes
    /\ fetched' = NoRun.fetched
    /\ walked' = NoRun.walked
    /\ UNCHANGED <<decodeVars, serverVars, diskVars>>

\* the server removes the message at sequence number i for good; the
\* messages after it move down by one
Expunge ==
    /\ pc = "Start"
    /\ \E i \in 1..Len(mailbox) :
        mailbox' = SubSeq(mailbox, 1, i - 1) \o SubSeq(mailbox, i + 1, Len(mailbox))
    /\ UNCHANGED <<decodeVars, diskVars, runVars>>

\* a message is delivered to the mailbox and gets the next sequence number
Deliver ==
    /\ pc = "Start"
    /\ Len(mailbox) < MaxMsgs
    /\ \E m \in RunMsgs : mailbox' = Append(mailbox, m)
    /\ UNCHANGED <<decodeVars, diskVars, runVars>>

Next ==
    \/ Start \/ EnvMissing \/ Connect \/ SkipConnect \/ Ping \/ Login
    \/ Main \/ List \/ Select \/ Mkdir \/ Criteria \/ DoSearch
    \/ Finish \/ Skip \/ OpenError \/ Cached \/ Download \/ Decode
    \/ Exit \/ Expunge \/ Deliver

Spec == Init /\ [][Next]_vars

(* ------------------- DecodeAttachment on its own ----------------------- *)
InitDecode ==
    /\ arg \in Messages
    /\ eofWithData \in BOOLEAN
    /\ called = ""
    /\ ret = Return(TRUE, NoAttachment, "", 0)
    /\ mailbox = <<>>
    /\ dirExists = FALSE
    /\ files = [i \in Ids |-> NoFile]
    /\ caller = NoRun.caller
    /\ flags = NoRun.flags
    /\ pc = NoRun.pc
    /\ IMAP = NoRun.IMAP
    /\ preAttached = NoRun.preAttached
    /\ initErr = NoRun.initErr
    /\ mailboxErr = NoRun.mailboxErr
    /\ cmds = NoRun.cmds
    /\ toSelect = NoRun.toSelect
    /\ criteria = NoRun.criteria
    /\ uids = NoRun.uids
    /\ idx = NoRun.idx
    /\ msgBytes = NoRun.msgBytes
    /\ fetched = NoRun.fetched
    /\ walked = NoRun.walked

\* DecodeAttachment(arg) is called
CallDecode ==
    /\ called = ""
    /\ called' = "DecodeAttachment"
    /\ ret' = DecodeAttachment(arg, eofWithData)
    /\ UNCHANGED <<arg, eofWithData, serverVars, diskVars, runVars>>

\* the earlier DecodeAttachment is called on arg
CallDecodeEarlier ==
    /\ called = ""
    /\ called' = "earlier"
    /\ ret' = DecodeAttachmentEarlier(arg, eofWithData)
    /\ UNCHANGED <<arg, eofWithData, serverVars, diskVars, runVars>>

NextDecode == CallDecode \/ CallDecodeEarlier

SpecDecode == InitDecode /\ [][NextDecode]_vars

(* ------------------------------ the claims ----------------------------- *)
Names(cs) == [i \in 1..Len(cs) |-> cs[i].name]
IsPrefix(a, b) == Len(a) <= Len(b) /\ SubSeq(b, 1, Len(a)) = a
Count(cs, name, a) == Cardinality({i \in 1..Len(cs) : cs[i].name = name /\ cs[i].arg = a})

\* the commands of Init, which come first in a run
InitCmds == SelectSeq(cmds, LAMBDA c : c.name \in {"DIAL", "NOOP", "LOGIN"})
InitPlan == (IF preAttached THEN <<>> ELSE <<"DIAL">>) \o <<"NOOP", "LOGIN">>
InitReturned == pc \notin {"Start", "Init", "Ping", "Login"} /\ cmds # <<>>

\* C1: Init dials only when no client is attached, then sends NOOP, then
\* LOGIN, in that order; a step that fails is the last one taken, and its
\* error is what Init returns; with no failure all steps are taken.
C1_InitOrder ==
    /\ IsPrefix(Names(InitCmds), InitPlan)
    /\ \A i \in 1..(Len(InitCmds) - 1) : InitCmds[i].ok
    /\ InitReturned =>
         IF initErr = ""
         THEN Names(InitCmds) = InitPlan /\ \A i \in 1..Len(InitCmds) : InitCmds[i].ok
         ELSE /\ ~InitCmds[Len(InitCmds)].ok
              /\ InitCmds[Len(InitCmds)].name = initErr

\* Init has returned the error of a NOOP that followed a successful dial
C1_Witness ==
    /\ pc = "returned" /\ initErr = "NOOP"
    /\ cmds = << Cmd("DIAL", 0, TRUE), Cmd("NOOP", 0, FALSE) >>

Rank(name) ==
    CASE name = "DIAL" -> 0 [] name = "NOOP" -> 1 [] name = "LOGIN" -> 2
      [] name = "LIST" -> 3 [] name = "SELECT" -> 4 [] name = "SEARCH" -> 5
      [] name = "FETCH" -> 6 [] OTHER -> 7

\* C2: in a run of climap the commands come in the order LOGIN, SELECT,
\* SEARCH, FETCH; SELECT, SEARCH and FETCH only after a LOGIN that
\* succeeded, SEARCH only after SELECTs that all succeeded, FETCH only
\* after a SEARCH that succeeded and only of an identifier it returned.
C2_CommandOrder ==
    caller = "climap" =>
      /\ \A i, j \in 1..Len(cmds) : i < j => Rank(cmds[i].name) <= Rank(cmds[j].name)
      /\ \A i \in 1..Len(cmds) :
           /\ cmds[i].name \in {"SELECT", "SEARCH", "FETCH"} =>
                \E j \in 1..(i - 1) : cmds[j] = Cmd("LOGIN", 0, TRUE)
           /\ cmds[i].name = "SEARCH" =>
                /\ \E j \in 1..(i - 1) : cmds[j].name = "SELECT"
                /\ \A j \in 1..(i - 1) : cmds[j].name = "SELECT" => cmds[j].ok
           /\ cmds[i].name = "FETCH" =>
                /\ \E j \in 1..(i - 1) : cmds[j] = Cmd("SEARCH", 0, TRUE)
                /\ \E k \in 1..Len(uids) : uids[k] = cmds[i].arg

\* a run has logged in, selected, searched and fetched
C2_Witness ==
    /\ caller = "climap" /\ pc = "done"
    /\ \E i \in 1..Len(cmds) : cmds[i].name = "FETCH" /\ cmds[i].ok

\* C3: with download, an identifier whose file exists has its bytes read
\* from the file, and nothing is fetched or written; an identifier whose
\* file is missing has at most one FETCH, and unless creating or writing
\* the file fails, which ends the run, it has had exactly one FETCH, the
\* only one of the run for it, and its file now holds the fetched bytes,
\* all of them.
C3_CacheOrFetch ==
    [][ (pc = "Loop" /\ idx <= Len(uids) /\ flags.download) =>
          LET uid == uids[idx]
          IN  IF files[uid].exists
              THEN /\ cmds' = cmds
                   /\ files' = files
                   /\ pc' = "Decode" => msgBytes' = Slice(files[uid].bytes)
              ELSE /\ Count(cmds', "FETCH", uid) <= 1
                   /\ pc' # "Decode" => pc' = "fatal"
                   /\ pc' = "Decode" =>
                        /\ cmds' = Append(cmds, cmds'[Len(cmds')])
                        /\ cmds'[Len(cmds')].name = "FETCH"
                        /\ Count(cmds', "FETCH", uid) = 1
                        /\ files' = [files EXCEPT ![uid] =
                                        [exists |-> TRUE, bytes |-> fetched'.bytes]]
                        /\ fetched'.bytes \in {Empty, mailbox[uid]}
      ]_vars

\* in one run a message was fetched and written, and the next identifier's
\* bytes were read from its file
C3_Witness ==
    /\ pc = "Decode" /\ idx = 2 /\ ~msgBytes.nil
    /\ msgBytes.bytes = files[uids[2]].bytes
    /\ cmds[Len(cmds)] = Cmd("FETCH", uids[1], TRUE)
    /\ files[uids[1]].bytes = mailbox[uids[1]]

\* C4 (as claimed): the identifiers are stable, so the bytes a run reads
\* from the file of an identifier its search returned are those of the
\* message that identifier stands for on the server (for SEARCH and FETCH:
\* the message at that sequence number), whatever was removed or delivered
\* since the file was written. Files left empty are not counted.
C4_CachedIsDesignated ==
    (pc = "Decode" /\ ~msgBytes.nil /\ msgBytes.bytes # Empty) =>
        msgBytes.bytes = mailbox[uids[idx]]

\* C7 (as claimed): with download, every identifier the loop is done with
\* had its bytes handed to DecodeAttachment, fetched or read from the file.
C7_EveryMessageWalked ==
    (caller = "climap" /\ flags.download /\ pc \in {"Loop", "done"}) =>
        \A k \in 1..(idx - 1) : uids[k] \in walked

\* C8: in a run NOOP, LOGIN and SEARCH are sent at most once and FETCH at
\* most once for an identifier, and no command that failed is sent again.
C8_NoRetry ==
    /\ \A n \in {"NOOP", "LOGIN", "SEARCH"} : Count(cmds, n, 0) <= 1
    /\ \A id \in Ids : Count(cmds, "FETCH", id) <= 1
    /\ \A i, j \in 1..Len(cmds) :
         (i < j /\ ~cmds[i].ok) =>
            ~(cmds[j].name = cmds[i].name /\ cmds[j].arg = cmds[i].arg)

\* a FETCH failed and the run went on to the next identifier
C8_Witness ==
    \E i, j \in 1..Len(cmds) :
        /\ i < j
        /\ cmds[i].name = "FETCH" /\ ~cmds[i].ok
        /\ cmds[j].name = "FETCH"

\* C9: without download no step of a run sends a FETCH or changes the
\* disk: the mailbox directory and the files stay as they were.
C9_NoDownloadNoEffect ==
    [][ ~flags.download =>
          /\ files' = files
          /\ dirExists' = dirExists
          /\ \A i \in 1..Len(cmds') : cmds'[i].name # "FETCH"
      ]_vars

\* a run without download is through a search that returned identifiers
C9_Witness ==
    /\ caller = "climap" /\ ~flags.download /\ pc = "done"
    /\ Len(uids) > 0 /\ idx > Len(uids)
    /\ ~dirExists

(* claims about DecodeAttachment, under SpecDecode *)
NoSpace(b) == SelectSeq(b, LAMBDA c : ~IsSpace(c))
Named(parts) == {k \in 1..Len(parts) : parts[k].filename # ""}
FirstNamed(parts) ==
    IF Named(parts) = {} THEN 0
    ELSE CHOOSE k \in Named(parts) : \A j \in Named(parts) : k <= j
PassesTopLevel(m) == m.readable /\ m.ctype.major = "multipart" /\ m.hasBoundary

\* C5: the attachment returned is the first part with a filename: the
\* parts before it have none, and no part after it is handed out by the
\* reader; with no error, an attachment is returned exactly when some part
\* has a filename.
C5_FirstNamedPart ==
    called = "DecodeAttachment" =>
      /\ ~ret.attNil =>
           /\ ret.examined = FirstNamed(arg.parts)
           /\ ret.examined > 0
           /\ ret.att.Filename = arg.parts[ret.examined].filename
      /\ Named(arg.parts) # {} => ret.examined <= FirstNamed(arg.parts)
      /\ (ret.err = "" /\ PassesTopLevel(arg)) => (ret.attNil <=> Named(arg.parts) = {})

\* the first of two parts with filenames was returned
C5_Witness ==
    /\ called = "DecodeAttachment" /\ ~ret.attNil /\ ret.err = ""
    /\ Len(arg.parts) = 2 /\ Named(arg.parts) = {1, 2}
    /\ arg.parts[2].cte # arg.parts[1].cte
    /\ ret.examined = 1

\* C6 (as claimed): for the first part with a filename, Content is the
\* base64 decoding of the body without white space when the header says
\* base64, the body unchanged when the header is absent or empty, and any
\* other header value gives the Unsupported Content-Transfer-Encoding error.
C6_ContentByEncoding ==
    LET k == FirstNamed(arg.parts)
        p == arg.parts[k]
        d == B64Decode(NoSpace(p.body))
    IN  (/\ called = "DecodeAttachment" /\ PassesTopLevel(arg) /\ k # 0
         /\ \A j \in 1..k : arg.parts[j].kind = "ok") =>
          CASE p.cte = "base64" ->
                 d.ok => (~ret.attNil /\ ret.err = "" /\ ret.att.Content = d.out)
            [] p.cte = "" ->
                 ~ret.attNil /\ ret.err = "" /\ ret.att.Content = p.body
            [] OTHER -> ret.err = "Unsupported Content-Transfer-Encoding"

\* C10: a message whose Content-Type is not multipart, or has no boundary,
\* gives an error and no attachment, and no part is handed out; an
\* attachment without an error is returned only when a part has a filename.
C10_TopLevelErrors ==
    called # "" =>
      /\ (arg.readable /\ (arg.ctype.major # "multipart" \/ ~arg.hasBoundary)) =>
           (ret.err # "" /\ ret.attNil /\ ret.examined = 0)
      /\ (~ret.attNil /\ ret.err = "") => Named(arg.parts) # {}

\* a multipart message with attachments and no boundary parameter was refused
C10_Witness ==
    /\ called = "DecodeAttachment"
    /\ arg.readable /\ arg.ctype.major = "multipart" /\ ~arg.hasBoundary
    /\ Named(arg.parts) = {1, 2}
    /\ ret.err = "No boundary in Content-Type!" /\ ret.attNil

HasList == \E i \in 1..Len(cmds) : cmds[i].name = "LIST"
Selects == SelectSeq(cmds, LAMBDA c : c.name = "SELECT")

\* C11: Mailbox sends no SELECT and returns "Mailbox not found" when the
\* LIST reply names no mailbox (and the LIST error when LIST fails);
\* otherwise the SELECTs follow the LIST, one for each mailbox listed, in
\* the order listed and all read-only, every one but the last having
\* succeeded; a SELECT that failed is the last one, its error is what
\* Mailbox returns, and Mailbox returns nil only when it selected all.
C11_MailboxSelects ==
    (caller = "climap" /\ HasList) =>
        LET l == CHOOSE i \in 1..Len(cmds) : cmds[i].name = "LIST"
            k == Len(Selects)
            n == cmds[l].arg
        IN  /\ l + k <= Len(cmds)
            /\ \A j \in 1..k : cmds[l + j] = Selects[j]
            /\ \A j \in 1..k : Selects[j].arg = j /\ Selects[j].readonly
            /\ \A j \in 1..(k - 1) : Selects[j].ok
            /\ IF ~cmds[l].ok
               THEN k = 0 /\ mailboxErr = "IMAP LIST error" /\ pc = "fatal"
               ELSE IF n = 0
               THEN k = 0 /\ mailboxErr = "Mailbox not found" /\ pc = "fatal"
               ELSE /\ k <= n
                    /\ (k > 0 /\ ~Selects[k].ok) =>
                          mailboxErr = "IMAP SELECT error" /\ pc = "fatal"
                    /\ (k = 0 \/ Selects[k].ok) => mailboxErr = ""
                    /\ (pc # "Select" /\ mailboxErr = "") => k = n
                    /\ pc = "Select" => k < n

\* the first of two mailboxes listed could not be selected, and the second
\* was left alone
C11_Witness ==
    /\ caller = "climap" /\ HasList /\ pc = "fatal"
    /\ Listed = 2
    /\ Len(Selects) = 1 /\ ~Selects[1].ok
    /\ mailboxErr = "IMAP SELECT error"



Issued(names) == \E i \in 1..Len(cmds) : cmds[i].name \in names

\* C12: a run of climap given neither a subject nor a duration sends no
\* LIST, SELECT, SEARCH or FETCH and stops once LOGIN has succeeded; a
\* run given one or both searches with exactly the terms given: SINCE and
\* its date for the duration, SUBJECT and its text for the subject, the
\* SINCE term first when both are given.
C12_Criteria ==
    caller = "climap" =>
      /\ (~flags.subject /\ ~flags.newer) =>
            /\ ~Issued({"LIST", "SELECT", "SEARCH", "FETCH"})
            /\ pc \in {"Start", "Init", "Ping", "Login", "Main", "fatal", "exit"}
            /\ pc = "exit" => cmds[Len(cmds)] = Cmd("LOGIN", 0, TRUE)
      /\ (Issued({"SEARCH"}) /\ flags.newer /\ flags.subject) =>
            criteria = <<"SINCE", "date", "SUBJECT", "text">>
      /\ (Issued({"SEARCH"}) /\ flags.newer /\ ~flags.subject) =>
            criteria = <<"SINCE", "date">>
      /\ (Issued({"SEARCH"}) /\ ~flags.newer /\ flags.subject) =>
            criteria = <<"SUBJECT", "text">>

\* a run given both a duration and a subject has searched
C12_Witness ==
    /\ caller = "climap" /\ flags.newer /\ flags.subject
    /\ Issued({"SEARCH"})
    /\ Len(criteria) = 4



\* C13: a FETCH that failed during a download has ended the run, and no
\* file stands at its identifier for a later run to take for the message.
C13_FailedFetchLeavesNoFile ==
    \A i \in 1..Len(cmds) :
        (cmds[i].name = "FETCH" /\ ~cmds[i].ok) =>
            /\ pc = "fatal"
            /\ ~files[cmds[i].arg].exists



\* C14: a run of climap that logged in and has come to its end, however
\* it ended, has sent LOGOUT as its last command.
C14_LogoutOnEveryPath ==
    (/\ caller = "climap"
     /\ Terminal
     /\ \E i \in 1..Len(cmds) : cmds[i] = Cmd("LOGIN", 0, TRUE)) =>
        cmds[Len(cmds)].name = "LOGOUT"



\* C15: in the download loop a cached message that is multipart, has a
\* boundary and has no part with a filename does not end the run: the
\* step that looks for its attachment goes on to the next identifier.
C15_NoAttachmentGoesOn ==
    [][ (/\ pc = "Decode"
         /\ ~msgBytes.nil
         /\ PassesTopLevel(msgBytes.bytes)
         /\ Named(msgBytes.bytes.parts) = {}
         /\ \A k \in 1..Len(msgBytes.bytes.parts) : msgBytes.bytes.parts[k].kind = "ok") =>
            /\ pc' = "Loop"
            /\ idx' = idx + 1
      ]_vars



\* all the bytes the reads of a part returned, in read order
BytesRead(part, e) ==
    LET rs == Reads(part, e) IN Join([i \in 1..Len(rs) |-> rs[i].p])

\* C16: an attachment returned has Length equal to the number of bytes of
\* its Content; for a part without encoding Content is the bytes read from
\* the part in read order, and for a base64 part it is their decoding.
C16_LengthIsContentSize ==
    (called = "DecodeAttachment" /\ ~ret.attNil) =>
        LET part == NextPart(arg.parts[ret.examined])
            all == BytesRead(part, eofWithData)
        IN  /\ ret.att.Length = Len(ret.att.Content)
            /\ part.cte = "" => ret.att.Content = all
            /\ part.cte = "base64" => ret.att.Content = B64Decode(NoSpace(all)).out


====
